---- MODULE Spec2Model ----
(***************************************************************************)
(* Model of the smithy crate: the UTS external-thread calculator           *)
(* (src/threading.rs) and the layout iterators calc_linear_spacing and     *)
(* calc_alt_grid (src/layout.rs).                                          *)
(*                                                                         *)
(* f64 values are modelled as decimal floating-point numbers with a        *)
(* Prec-digit mantissa, an unbounded exponent, the two infinities and NaN. *)
(* Every arithmetic operation rounds its exact result to the nearest       *)
(* representable value (ties to even), as IEEE-754 arithmetic does; cbrt   *)
(* rounds toward zero (the C library's cbrt is not correctly rounded       *)
(* either).  The sign of zero is not modelled.                             *)
(***************************************************************************)
EXTENDS Integers, Sequences, FiniteSets, TLC

(***************************************************************************)
(* Option<T>: None is the empty sequence, Some(x) the one-element sequence *)
(***************************************************************************)
None == << >>

Some(x) == << x >>

IsSome(o) == Len(o) = 1

Unwrap(o) == o[1]

unwrap_or(o, dflt) == IF IsSome(o) THEN o[1] ELSE dflt

(***************************************************************************)
(* f64                                                                     *)
(***************************************************************************)
Prec == 4

Radix == 10

Abs(n) == IF n < 0 THEN 0 - n ELSE n

Sgn(n) == IF n < 0 THEN 0 - 1 ELSE 1

Zero == [k |-> "fin", s |-> 1, m |-> 0, e |-> 0]

NaN == [k |-> "nan", s |-> 1, m |-> 0, e |-> 0]

Inf(sg) == [k |-> "inf", s |-> sg, m |-> 0, e |-> 0]

Fin(sg, mant, ex) == [k |-> "fin", s |-> sg, m |-> mant, e |-> ex]

RECURSIVE Digits(_)
Digits(n) == IF n < Radix THEN 1 ELSE 1 + Digits(n \div Radix)

\* n with its k low digits rounded away: nearest, ties to even; sticky says
\* that n itself is the truncation of a larger exact value
RoundOff(n, k, sticky) ==
    LET w == Radix ^ k
        q == n \div w
        r == n % w
        twice == 2 * r + (IF sticky THEN 1 ELSE 0)
    IN  IF twice > w \/ (twice = w /\ q % 2 = 1) THEN q + 1 ELSE q

\* the f64 nearest to sg * n * Radix^ex, n >= 0
Norm(sg, n, ex, sticky) ==
    IF n = 0 THEN Zero
    ELSE LET dg == Digits(n) IN
         IF dg <= Prec
         THEN Fin(sg, n * Radix ^ (Prec - dg), ex - (Prec - dg))
         ELSE LET k == dg - Prec
                  q == RoundOff(n, k, sticky)
              IN  IF q = Radix ^ Prec
                  THEN Fin(sg, Radix ^ (Prec - 1), ex + k + 1)
                  ELSE Fin(sg, q, ex + k)

\* a decimal literal n * 10^ex of the source, rounded to f64
Lit(n, ex) == Norm(Sgn(n), Abs(n), ex, FALSE)

IsNaN(a) == a.k = "nan"

IsFinite(a) == a.k = "fin"

FNeg(a) == IF a.k = "nan" \/ (a.k = "fin" /\ a.m = 0) THEN a ELSE [a EXCEPT !.s = 0 - a.s]

\* |a| >= |b| for finite a, b
MagGe(a, b) ==
    IF b.m = 0 THEN TRUE
    ELSE IF a.m = 0 THEN FALSE
    ELSE a.e > b.e \/ (a.e = b.e /\ a.m >= b.m)

AddFin(a, b) ==
    LET hi == IF MagGe(a, b) THEN a ELSE b
        lo == IF MagGe(a, b) THEN b ELSE a
        diff == hi.e - lo.e
    IN  IF lo.m = 0 THEN hi
        ELSE IF diff > Prec + 1 THEN hi
        ELSE LET n == hi.s * hi.m * Radix ^ diff + lo.s * lo.m
             IN  Norm(Sgn(n), Abs(n), lo.e, FALSE)

FAdd(a, b) ==
    IF a.k = "nan" \/ b.k = "nan" THEN NaN
    ELSE IF a.k = "inf" /\ b.k = "inf" THEN (IF a.s = b.s THEN a ELSE NaN)
    ELSE IF a.k = "inf" THEN a
    ELSE IF b.k = "inf" THEN b
    ELSE AddFin(a, b)

FSub(a, b) == FAdd(a, FNeg(b))

FMul(a, b) ==
    IF a.k = "nan" \/ b.k = "nan" THEN NaN
    ELSE IF a.k = "inf" \/ b.k = "inf"
         THEN (IF (a.k = "fin" /\ a.m = 0) \/ (b.k = "fin" /\ b.m = 0)
               THEN NaN ELSE Inf(a.s * b.s))
    ELSE Norm(a.s * b.s, a.m * b.m, a.e + b.e, FALSE)

FDiv(a, b) ==
    IF a.k = "nan" \/ b.k = "nan" THEN NaN
    ELSE IF a.k = "inf" THEN (IF b.k = "inf" THEN NaN ELSE Inf(a.s * b.s))
    ELSE IF b.k = "inf" THEN Zero
    ELSE IF b.m = 0 THEN (IF a.m = 0 THEN NaN ELSE Inf(a.s))
    ELSE LET n == a.m * Radix ^ (Prec + 1)
         IN  Norm(a.s * b.s, n \div b.m, a.e - b.e - (Prec + 1), n % b.m # 0)

\* a < b, a = b for IEEE comparison (every comparison with NaN is false)
FinLt(a, b) ==
    IF a.s # b.s THEN a.s < b.s /\ (a.m # 0 \/ b.m # 0)
    ELSE IF a.s = 1 THEN ~MagGe(a, b)
    ELSE ~MagGe(b, a)

FEq(a, b) == a.k # "nan" /\ b.k # "nan" /\ a = b

FLt(a, b) ==
    IF a.k = "nan" \/ b.k = "nan" THEN FALSE
    ELSE IF a = b THEN FALSE
    ELSE IF a.k = "inf" THEN a.s < 0
    ELSE IF b.k = "inf" THEN b.s > 0
    ELSE FinLt(a, b)

FLe(a, b) == FLt(a, b) \/ FEq(a, b)

\* u32 (or i32) as f64
FromInt(n) == Norm(Sgn(n), Abs(n), 0, FALSE)

\* floor of the square root of n
RECURSIVE ISqrt(_, _, _)
ISqrt(n, lo, hi) ==
    IF lo >= hi THEN lo
    ELSE LET mid == (lo + hi + 1) \div 2
         IN  IF mid * mid <= n THEN ISqrt(n, mid, hi) ELSE ISqrt(n, lo, mid - 1)

\* f64::sqrt, correctly rounded
FSqrt(a) ==
    IF a.k = "nan" THEN NaN
    ELSE IF a.k = "inf" THEN (IF a.s > 0 THEN a ELSE NaN)
    ELSE IF a.m = 0 THEN Zero
    ELSE IF a.s < 0 THEN NaN
    ELSE LET sh == IF a.e % 2 = 0 THEN Prec ELSE Prec + 1
             n == a.m * Radix ^ sh
             r == ISqrt(n, 0, 4 * Radix ^ Prec)
             up == IF n > r * r + r THEN 1 ELSE 0
         IN  IF Digits(r) > Prec
             THEN Norm(1, r, (a.e - sh) \div 2, r * r # n)
             ELSE Norm(1, r + up, (a.e - sh) \div 2, FALSE)

\* r^3 <= c * Radix^Prec, without leaving 32 bits
CubeLe(r, c) ==
    LET w == Radix ^ Prec
        sq == r * r
        hi == r * (sq \div w) + (r * (sq % w)) \div w
        lo == (r * (sq % w)) % w
    IN  hi < c \/ (hi = c /\ lo = 0)

RECURSIVE ICbrt(_, _, _)
ICbrt(c, lo, hi) ==
    IF lo >= hi THEN lo
    ELSE LET mid == (lo + hi + 1) \div 2
         IN  IF CubeLe(mid, c) THEN ICbrt(c, mid, hi) ELSE ICbrt(c, lo, mid - 1)

\* f64::cbrt
FCbrt(a) ==
    IF a.k # "fin" THEN a
    ELSE IF a.m = 0 THEN Zero
    ELSE LET sh == (a.e % 3) + 2
             c == a.m * Radix ^ sh
             r == ICbrt(c, 0, Radix ^ Prec - 1)
         IN  Norm(a.s, r, (a.e - (a.e % 3)) \div 3 - 2, FALSE)

(***************************************************************************)
(* src/threading.rs                                                        *)
(***************************************************************************)
ThreadClass == {"A1", "A2", "A3"}

calc_uts_allowance_any_class(d0, p0, class0, le0) ==
    LET le1 == unwrap_or(le0, FMul(Lit(5, 0), p0))
        k1 == Lit(15, -4)
        k2 == Lit(15, -3)
    IN  FMul(Lit(3, -1),
             FAdd(FAdd(FMul(k1, FCbrt(d0)), FMul(k1, FSqrt(le1))),
                  FMul(k2, FCbrt(FMul(p0, p0)))))

calc_uts_allowance(d0, p0, class0, le0) ==
    LET le1 == unwrap_or(le0, FMul(Lit(5, 0), p0))
        k1 == Lit(15, -4)
        k2 == Lit(15, -3)
    IN  IF class0 = "A3" THEN Zero
        ELSE FMul(Lit(3, -1),
                  FAdd(FAdd(FMul(k1, FCbrt(d0)), FMul(k1, FSqrt(le1))),
                       FMul(k2, FCbrt(FMul(p0, p0)))))

calc_uts_base_tolerance(d0, p0, le0) ==
    LET k1 == Lit(15, -4)
        k2 == Lit(15, -3)
    IN  FAdd(FAdd(FMul(k1, FCbrt(d0)), FMul(k1, FSqrt(le0))),
             FMul(k2, FCbrt(FMul(p0, p0))))

\* the A3 pitch-diameter tolerance taken from the A2 arm
calc_uts_extern_tolerances_a3_as_a2(d0, p0, class0, le0) ==
    LET t0 == calc_uts_base_tolerance(d0, p0, le0)
        td0 == IF class0 = "A1" THEN FMul(Lit(3, -1), t0)
               ELSE FMul(Lit(6, -2), FCbrt(FMul(p0, p0)))
        td20 == IF class0 = "A1" THEN FMul(Lit(15, -1), t0) ELSE t0
    IN  [t |-> t0, td |-> td0, td2 |-> td20]

calc_uts_extern_tolerances(d0, p0, class0, le0) ==
    LET t0 == calc_uts_base_tolerance(d0, p0, le0)
        td0 == IF class0 = "A1" THEN FMul(Lit(3, -1), t0)
               ELSE FMul(Lit(6, -2), FCbrt(FMul(p0, p0)))
        td20 == IF class0 = "A1" THEN FMul(Lit(15, -1), t0)
                ELSE IF class0 = "A2" THEN t0
                ELSE FMul(Lit(75, -2), t0)
    IN  [t |-> t0, td |-> td0, td2 |-> td20]

\* the engagement length defaulted as calc_uts_allowance defaults it
calc_uts_extern_thread_default_5(d0, tpi0, class0, le0) ==
    LET p0 == FDiv(Lit(1, 0), FromInt(tpi0))
        le1 == FMul(FromInt(unwrap_or(le0, 5)), p0)
        es0 == calc_uts_allowance(d0, p0, class0, Some(le1))
        d_max0 == FSub(d0, es0)
        tol == calc_uts_extern_tolerances(d0, p0, class0, le1)
        d_min0 == FSub(d_max0, tol.td)
        h0 == FMul(Lit(866025404, -9), p0)
        d20 == FSub(d0, FMul(Lit(2, 0), FMul(FDiv(Lit(3, 0), Lit(8, 0)), h0)))
        d2_max0 == FSub(d20, es0)
        d2_min0 == FSub(d2_max0, tol.td2)
        d_bsc_min == FSub(d0, FMul(Lit(2, 0), FMul(FDiv(Lit(5, 0), Lit(8, 0)), h0)))
        d10 == IF class0 \in {"A1", "A2"} THEN FSub(d_bsc_min, es0) ELSE d_bsc_min
    IN  [p |-> p0, le |-> le1, es |-> es0, d_min |-> d_min0, d_max |-> d_max0,
         t |-> tol.t, td |-> tol.td, td2 |-> tol.td2, d2 |-> d20,
         d2_min |-> d2_min0, d2_max |-> d2_max0, h |-> h0, d1 |-> d10,
         d_unr_max |-> FMul(Lit(119078493, -8), p0),
         d_un_max |-> FMul(Lit(108253175, -8), p0),
         h_as |-> FMul(Lit(64951905, -8), p0)]

\* the tolerances added to the maximum diameters instead of subtracted
calc_uts_extern_thread_tol_added(d0, tpi0, class0, le0) ==
    LET p0 == FDiv(Lit(1, 0), FromInt(tpi0))
        le1 == FMul(FromInt(unwrap_or(le0, 9)), p0)
        es0 == calc_uts_allowance(d0, p0, class0, Some(le1))
        d_max0 == FSub(d0, es0)
        tol == calc_uts_extern_tolerances(d0, p0, class0, le1)
        d_min0 == FAdd(d_max0, tol.td)
        h0 == FMul(Lit(866025404, -9), p0)
        d20 == FSub(d0, FMul(Lit(2, 0), FMul(FDiv(Lit(3, 0), Lit(8, 0)), h0)))
        d2_max0 == FSub(d20, es0)
        d2_min0 == FAdd(d2_max0, tol.td2)
        d_bsc_min == FSub(d0, FMul(Lit(2, 0), FMul(FDiv(Lit(5, 0), Lit(8, 0)), h0)))
        d10 == IF class0 \in {"A1", "A2"} THEN FSub(d_bsc_min, es0) ELSE d_bsc_min
    IN  [p |-> p0, le |-> le1, es |-> es0, d_min |-> d_min0, d_max |-> d_max0,
         t |-> tol.t, td |-> tol.td, td2 |-> tol.td2, d2 |-> d20,
         d2_min |-> d2_min0, d2_max |-> d2_max0, h |-> h0, d1 |-> d10,
         d_unr_max |-> FMul(Lit(119078493, -8), p0),
         d_un_max |-> FMul(Lit(108253175, -8), p0),
         h_as |-> FMul(Lit(64951905, -8), p0)]

calc_uts_extern_thread(d0, tpi0, class0, le0) ==
    LET p0 == FDiv(Lit(1, 0), FromInt(tpi0))
        le1 == FMul(FromInt(unwrap_or(le0, 9)), p0)
        es0 == calc_uts_allowance(d0, p0, class0, Some(le1))
        d_max0 == FSub(d0, es0)
        tol == calc_uts_extern_tolerances(d0, p0, class0, le1)
        d_min0 == FSub(d_max0, tol.td)
        h0 == FMul(Lit(866025404, -9), p0)
        d20 == FSub(d0, FMul(Lit(2, 0), FMul(FDiv(Lit(3, 0), Lit(8, 0)), h0)))
        d2_max0 == FSub(d20, es0)
        d2_min0 == FSub(d2_max0, tol.td2)
        d_bsc_min == FSub(d0, FMul(Lit(2, 0), FMul(FDiv(Lit(5, 0), Lit(8, 0)), h0)))
        d10 == IF class0 \in {"A1", "A2"} THEN FSub(d_bsc_min, es0) ELSE d_bsc_min
    IN  [p |-> p0, le |-> le1, es |-> es0, d_min |-> d_min0, d_max |-> d_max0,
         t |-> tol.t, td |-> tol.td, td2 |-> tol.td2, d2 |-> d20,
         d2_min |-> d2_min0, d2_max |-> d2_max0, h |-> h0, d1 |-> d10,
         d_unr_max |-> FMul(Lit(119078493, -8), p0),
         d_un_max |-> FMul(Lit(108253175, -8), p0),
         h_as |-> FMul(Lit(64951905, -8), p0)]

(***************************************************************************)
(* src/layout.rs                                                           *)
(***************************************************************************)
\* A u32 is held as the 32-bit two's-complement integer with the same bit
\* pattern, so that wrapping subtraction is plain subtraction.
U32Lt(a, b) == IF (a >= 0) = (b >= 0) THEN a < b ELSE b < 0

\* n as f64 for a u32 n; a negative pattern s stands for 2^32 + s
U32AsF64(n) ==
    IF n >= 0 THEN FromInt(n)
    ELSE Norm(1, 429496729 + ((6 + n) \div 10), 1, (6 + n) % 10 # 0)

Coord(x0, y0) == [x |-> x0, y |-> y0, z |-> None, angle |-> None]

\* the closure of map in calc_linear_spacing
spacing_value(start0, step0, i0) == FAdd(FMul(step0, FromInt(i0)), start0)

spacing_take_while_lt(v, end0) == FLt(v, end0)

\* the predicate of take_while in calc_linear_spacing
spacing_take_while(v, end0) == FLe(v, end0)

\* the x of an odd row measured from x_start like that of an even row
alt_grid_x_from_start(xs, xc, xst, cx, cy) ==
    IF cy % 2 = 0
    THEN FAdd(xs, FMul(FromInt(cx), xst))
    ELSE FAdd(xs, FMul(U32AsF64((xc - 1) - cx), xst))

\* let x = if cur_y % 2 == 0 { .. } else { .. }, with wrapping subtraction
alt_grid_x(xs, xc, xst, cx, cy) ==
    IF cy % 2 = 0
    THEN FAdd(xs, FMul(FromInt(cx), xst))
    ELSE FMul(U32AsF64((xc - 1) - cx), xst)

\* one of the two u32 subtractions of that expression underflows
alt_grid_x_underflows(xc, cx, cy) ==
    cy % 2 # 0 /\ (U32Lt(xc, 1) \/ U32Lt(xc - 1, cx))

alt_grid_y(ys, yst, cy) == FAdd(ys, FMul(FromInt(cy), yst))

(***************************************************************************)
(* State.  One call of each entry point is modelled: its arguments are     *)
(* drawn at Init; a calculator call stores what it returns, an iterator    *)
(* is stepped by next() and the items it yields are collected.             *)
(***************************************************************************)
VARIABLES
    d, tpi, class, le,    \* arguments of calc_uts_extern_thread
    ale,                  \* le argument of calc_uts_allowance (Option<f64>)
    thread,               \* Option: the UnifiedThreadCalc returned
    allowance,            \* Option: the f64 calc_uts_allowance returned
    start, end, step,     \* arguments of calc_linear_spacing
    range_i,              \* next item of the range (0..)
    spacing_done,         \* TakeWhile's flag: the predicate has failed
    spacing_out,          \* the values yielded so far
    x_start, x_cnt, x_step, y_start, y_cnt, y_step,  \* arguments of calc_alt_grid
    overflow_checks,      \* the build panics on integer overflow (debug profile)
    cur_x, cur_y,         \* the cursor captured by the from_fn closure
    grid_out,             \* the coordinates yielded so far by this call
    grid_ended,           \* next() has returned None
    grid_panicked,        \* next() has panicked
    grid_call,            \* 1 for the first call of calc_alt_grid, 2 for the second
    grid_first            \* what the first call yielded before it ended

thread_vars == << d, tpi, class, le, ale, thread, allowance >>

spacing_vars == << start, end, step, range_i, spacing_done, spacing_out >>

grid_args == << x_start, x_cnt, x_step, y_start, y_cnt, y_step, overflow_checks >>

grid_vars == << grid_args, cur_x, cur_y, grid_out, grid_ended, grid_panicked,
                grid_call, grid_first >>

vars == << thread_vars, spacing_vars, grid_vars >>

MaxDia == 27

MaxTpi == 64

MaxLeMult == 16

MaxIdx == 30

MaxXCnt == 6

MaxYCnt == 4

Dias == {FromInt(0 - MaxDia), FromInt(0 - 1), Zero, Lit(25, -2), Lit(5, -1), FromInt(MaxDia)}

Tpis == {0, 1, 20, 28, MaxTpi}

LeOpts == {None, Some(0), Some(1), Some(9), Some(MaxLeMult)}

ALeOpts == {None, Some(Lit(125, -4)), Some(Lit(4, -1))}

Starts == {Zero, Lit(5, -1), Lit(6, 0)}

Ends == {Lit(25, -2), Lit(5, 0), Lit(115, -1)}

Steps == {Lit(0 - 1, 0), Zero, Lit(5, -1), Lit(1, 0), Lit(275, -2)}

XStarts == {Zero, Lit(5, -1)}

XSteps == {Lit(1, 0), Lit(2, 0)}

YStarts == {Zero, Lit(15, -1)}

YSteps == {Lit(1, 0)}

ThreadIdle ==
    /\ d = Zero /\ tpi = 1 /\ class = "A1" /\ le = None /\ ale = None
    /\ thread = None /\ allowance = None

SpacingIdle ==
    /\ start = Zero /\ end = Zero /\ step = Zero
    /\ range_i = 0 /\ spacing_done = FALSE /\ spacing_out = << >>

GridIdle ==
    /\ x_start = Zero /\ x_cnt = 0 /\ x_step = Zero
    /\ y_start = Zero /\ y_cnt = 0 /\ y_step = Zero
    /\ overflow_checks = FALSE
    /\ cur_x = 0 /\ cur_y = 0 /\ grid_out = << >>
    /\ grid_ended = FALSE /\ grid_panicked = FALSE
    /\ grid_call = 1 /\ grid_first = << >>

(***************************************************************************)
(* The thread calculator                                                   *)
(***************************************************************************)
ThreadInit ==
    /\ d \in Dias
    /\ tpi \in Tpis
    /\ class \in ThreadClass
    /\ le \in LeOpts
    /\ ale \in ALeOpts
    /\ thread = None
    /\ allowance = None
    /\ SpacingIdle
    /\ GridIdle

\* let es = calc_uts_allowance(d, 1.0 / tpi as f64, &class, ale)
CallAllowance ==
    /\ allowance = None
    /\ allowance' = Some(calc_uts_allowance(d, FDiv(Lit(1, 0), FromInt(tpi)), class, ale))
    /\ UNCHANGED << d, tpi, class, le, ale, thread, spacing_vars, grid_vars >>

\* let n = calc_uts_extern_thread(d, tpi, &class, le)
CallExternThread ==
    /\ thread = None
    /\ thread' = Some(calc_uts_extern_thread(d, tpi, class, le))
    /\ UNCHANGED << d, tpi, class, le, ale, allowance, spacing_vars, grid_vars >>

ThreadNext == CallAllowance \/ CallExternThread

ThreadSpec == ThreadInit /\ [][ThreadNext]_vars

(***************************************************************************)
(* calc_linear_spacing(start, end, step)                                   *)
(***************************************************************************)
SpacingInit ==
    /\ start \in Starts
    /\ end \in Ends
    /\ step \in Steps
    /\ range_i = 0
    /\ spacing_done = FALSE
    /\ spacing_out = << >>
    /\ ThreadIdle
    /\ GridIdle

\* next() of (0..).map(..).take_while(..): once the predicate has failed the
\* iterator returns None without touching the range
SpacingNext ==
    /\ ~spacing_done
    /\ range_i < MaxIdx
    /\ LET v == spacing_value(start, step, range_i)
       IN  /\ range_i' = range_i + 1
           /\ IF spacing_take_while(v, end)
              THEN /\ spacing_out' = Append(spacing_out, v)
                   /\ UNCHANGED spacing_done
              ELSE /\ spacing_done' = TRUE
                   /\ UNCHANGED spacing_out
    /\ UNCHANGED << start, end, step, thread_vars, grid_vars >>

SpacingSpec == SpacingInit /\ [][SpacingNext]_vars

(***************************************************************************)
(* calc_alt_grid(x_start, x_cnt, x_step, y_start, y_cnt, y_step)           *)
(***************************************************************************)
GridInit ==
    /\ x_start \in XStarts
    /\ x_cnt \in 0 .. MaxXCnt
    /\ x_step \in XSteps
    /\ y_start \in YStarts
    /\ y_cnt \in 0 .. MaxYCnt
    /\ y_step \in YSteps
    /\ overflow_checks \in BOOLEAN
    /\ cur_x = 0
    /\ cur_y = 0
    /\ grid_out = << >>
    /\ grid_ended = FALSE
    /\ grid_panicked = FALSE
    /\ grid_call = 1
    /\ grid_first = << >>
    /\ ThreadIdle
    /\ SpacingIdle

\* next() of the from_fn closure
AltGridNext ==
    /\ ~grid_ended
    /\ ~grid_panicked
    /\ IF cur_y >= y_cnt
       THEN /\ grid_ended' = TRUE
            /\ UNCHANGED << cur_x, cur_y, grid_out, grid_panicked >>
       ELSE IF overflow_checks /\ alt_grid_x_underflows(x_cnt, cur_x, cur_y)
       THEN /\ grid_panicked' = TRUE
            /\ UNCHANGED << cur_x, cur_y, grid_out, grid_ended >>
       ELSE /\ grid_out' = Append(grid_out,
                   Coord(alt_grid_x(x_start, x_cnt, x_step, cur_x, cur_y),
                         alt_grid_y(y_start, y_step, cur_y)))
            /\ IF cur_x + 1 >= x_cnt
               THEN cur_x' = 0 /\ cur_y' = cur_y + 1
               ELSE cur_x' = cur_x + 1 /\ cur_y' = cur_y
            /\ UNCHANGED << grid_ended, grid_panicked >>
    /\ UNCHANGED << grid_args, grid_call, grid_first, thread_vars, spacing_vars >>

\* the caller calls calc_alt_grid again with the same arguments
AltGridAgain ==
    /\ grid_ended
    /\ grid_call = 1
    /\ grid_call' = 2
    /\ grid_first' = grid_out
    /\ cur_x' = 0
    /\ cur_y' = 0
    /\ grid_out' = << >>
    /\ grid_ended' = FALSE
    /\ UNCHANGED << grid_args, grid_panicked, thread_vars, spacing_vars >>

GridNext == AltGridNext \/ AltGridAgain

GridSpec == GridInit /\ [][GridNext]_vars

(***************************************************************************)
(* Properties of the thread calculator (checked under ThreadSpec)          *)
(***************************************************************************)
A1A2 == {"A1", "A2"}

Pitch == FDiv(Lit(1, 0), FromInt(tpi))

MinLeMax(r) ==
    /\ FLe(r.d_min, r.d_max)
    /\ FLe(r.d2_min, r.d2_max)
    /\ FLe(Zero, r.td)
    /\ FLe(Zero, r.td2)

\* C1 as stated: for every class, every diameter d and every tpi >= 1 the
\* record returned has d_min <= d_max and d2_min <= d2_max, the tolerances
\* td and td2 being non-negative.
MinLeMaxAnyDiameter ==
    (IsSome(thread) /\ tpi >= 1) => MinLeMax(thread[1])

\* C1 as amended: the same for every finite diameter d >= 0.
MinLeMaxNonNegativeDiameter ==
    (IsSome(thread) /\ tpi >= 1 /\ FLe(Zero, d)) => MinLeMax(thread[1])

MinLeMaxWitness ==
    /\ IsSome(thread) /\ tpi >= 1 /\ FLe(Zero, d)
    /\ FLt(thread[1].d_min, thread[1].d_max)
    /\ FLt(thread[1].d2_min, thread[1].d2_max)

\* C2: for class A3 calc_uts_allowance returns 0.0 whatever the diameter,
\* pitch and engagement length, and the record of calc_uts_extern_thread has
\* es = 0, d_max = d, d2_max = d2 and d1 = the basic minor diameter
\* d - 2 * (5/8) * h.
A3NoAllowance ==
    class = "A3" =>
        /\ IsSome(allowance) => allowance[1] = Zero
        /\ IsSome(thread) =>
              LET r == thread[1]
              IN  /\ r.es = Zero
                  /\ FEq(r.d_max, d)
                  /\ FEq(r.d2_max, r.d2)
                  /\ FEq(r.d1, FSub(d, FMul(Lit(2, 0),
                                            FMul(FDiv(Lit(5, 0), Lit(8, 0)), r.h))))

A3NoAllowanceWitness ==
    /\ class = "A3" /\ IsSome(allowance) /\ IsSome(thread)
    /\ IsSome(ale) /\ IsSome(le) /\ tpi >= 1 /\ FLt(Zero, d)

\* C3: with T = k1*cbrt(D) + k1*sqrt(LE) + k2*cbrt(P^2), k1 = 0.0015 and
\* k2 = 0.015, the record has t = T for every class, td = 0.3*T for A1 and
\* 0.06*cbrt(P^2) for A2 and A3, td2 = 1.5*T for A1, T for A2, 0.75*T for A3.
TolerancesByClass ==
    IsSome(thread) =>
        LET r == thread[1]
            T == FAdd(FAdd(FMul(Lit(15, -4), FCbrt(d)),
                           FMul(Lit(15, -4), FSqrt(r.le))),
                      FMul(Lit(15, -3), FCbrt(FMul(r.p, r.p))))
            PitchOnly == FMul(Lit(6, -2), FCbrt(FMul(r.p, r.p)))
        IN  /\ r.t = T
            /\ class = "A1" => r.td = FMul(Lit(3, -1), T) /\ r.td2 = FMul(Lit(15, -1), T)
            /\ class = "A2" => r.td = PitchOnly /\ r.td2 = T
            /\ class = "A3" => r.td = PitchOnly /\ r.td2 = FMul(Lit(75, -2), T)

TolerancesByClassWitness ==
    /\ IsSome(thread) /\ class = "A3" /\ tpi >= 1 /\ FLt(Zero, d)
    /\ FLt(Zero, thread[1].t)
    /\ thread[1].td2 # thread[1].t
    /\ thread[1].td # FMul(Lit(3, -1), thread[1].t)

\* C4: a call with threads_per_inch = 0 ends in an arithmetic fault: it
\* never returns a record (whose fields would be Infinity or NaN).
ZeroTpiReturnsNoRecord ==
    tpi = 0 => ~IsSome(thread)

\* C5 as stated: with no engagement length supplied, calc_uts_allowance and
\* calc_uts_extern_thread return the same allowance for classes A1/A2, equal
\* to 0.3 times the base tolerance computed with LE = 9 x P.
DefaultLeSameAllowance ==
    (IsSome(thread) /\ IsSome(allowance) /\ le = None /\ ale = None /\ class \in A1A2) =>
        /\ allowance[1] = thread[1].es
        /\ allowance[1] = FMul(Lit(3, -1),
               calc_uts_base_tolerance(d, Pitch, FMul(Lit(9, 0), Pitch)))

\* C5 as amended: with no engagement length supplied, calc_uts_extern_thread
\* uses LE = 9 x P and for classes A1/A2 its allowance es is 0.3 times the
\* base tolerance computed with LE = 9 x P, while calc_uts_allowance uses
\* LE = 5 x P and for A1/A2 returns 0.3 times the base tolerance computed
\* with LE = 5 x P.
DefaultLeNineAndFive ==
    /\ (IsSome(thread) /\ le = None) =>
          /\ thread[1].le = FMul(Lit(9, 0), Pitch)
          /\ class \in A1A2 =>
                thread[1].es = FMul(Lit(3, -1),
                    calc_uts_base_tolerance(d, Pitch, FMul(Lit(9, 0), Pitch)))
    /\ (IsSome(allowance) /\ ale = None /\ class \in A1A2) =>
          allowance[1] = FMul(Lit(3, -1),
              calc_uts_base_tolerance(d, Pitch, FMul(Lit(5, 0), Pitch)))

DefaultLeWitness ==
    /\ IsSome(thread) /\ IsSome(allowance) /\ le = None /\ ale = None
    /\ class = "A1" /\ tpi >= 1 /\ FLt(Zero, d)
    /\ FLt(allowance[1], thread[1].es)

GridYieldsProduct ==
    /\ ~grid_panicked
    /\ Len(grid_out) <= x_cnt * y_cnt
    /\ grid_ended => Len(grid_out) = x_cnt * y_cnt
    /\ (grid_ended /\ grid_call = 2) => grid_out = grid_first

\* C8: when x_cnt = 0 or y_cnt = 0 no coordinate is ever yielded.
ZeroCountYieldsNothing ==
    (x_cnt = 0 \/ y_cnt = 0) => grid_out = << >>

\* C10: whenever a coordinate of an odd row is about to be computed the
\* cursor has cur_x < x_cnt and cur_y < y_cnt, so that (x_cnt - 1) - cur_x
\* does not underflow: next() neither panics nor wraps around.
OddRowCursorInRange ==
    /\ ~grid_panicked
    /\ (~grid_ended /\ cur_y < y_cnt /\ cur_y % 2 = 1) =>
          /\ cur_x < x_cnt
          /\ ~alt_grid_x_underflows(x_cnt, cur_x, cur_y)

====
